---- MODULE Spec2Model ----
(***************************************************************************)
(* ThreatCanvas: the log batching, metrics and classification pipeline of  *)
(* threatcanvas/processor.py (class LogProcessor).                         *)
(*                                                                         *)
(* A DataFrame is a sequence of rows; a row is a record with the columns   *)
(* ip, timestamp and status.  A timestamp cell is text as read from the    *)
(* CSV, [mm, ss] (minutes and seconds of "YYYY-MM-DD HH:MM:SS +ZZZZ") or    *)
(* [raw] (text that is no date), or, once pandas.to_datetime has run on    *)
(* the column, an instant [epoch] in seconds.                              *)
(* error_rate is kept in tenths of a percent: round(x, 1) has one decimal. *)
(***************************************************************************)
EXTENDS Integers, Sequences, FiniteSets, TLC

VARIABLES
    csv,               \* rows of the file at csv_path, as pd.read_csv returns them
    current_index,     \* LogProcessor.current_index
    batch_size,        \* LogProcessor.batch_size
    current_batch_id,  \* LogProcessor.current_batch_id
    batch,             \* the DataFrame object last drawn or passed (mutable)
    arg,               \* history: the DataFrame the last call received, as it was then
                       \* (empty after get_next_batch, which receives none)
    ret,               \* outcome of the last call: [op, raised, metrics, patterns]
    calls,             \* history: number of get_next_batch calls made so far
    env,               \* history: what the collaborators did for each group of the
                       \* last analyze_patterns run
    trace,             \* history: the steps of the last analyze_patterns run, in order
    session,           \* st.session_state of the dashboard (app.py, utils.py), with the
                       \* file uploader widget's state
    runs               \* history: calls of process_uploaded_file and of
                       \* generate_ai_summary made by the dashboard so far

vars == <<csv, current_index, batch_size, current_batch_id, batch, arg, ret, calls,
          env, trace, session, runs>>

(***************************************************************************)
(* Bounds of the model.                                                    *)
(***************************************************************************)
MaxFileRows == 25      \* longest file of the cursor specification
MaxCalls == 5          \* get_next_batch calls explored by the cursor specification
MaxBatchRows == 3      \* longest DataFrame drawn for calculate_metrics and analyze_patterns
MaxSmallFile == 2      \* longest file of the processing specification
MaxSmallBatch == 2     \* largest batch_size of the processing specification
MaxDraws == 3          \* draws explored by the processing specification

DefaultBatchSize == 10

Min(a, b) == IF a <= b THEN a ELSE b

SetMax(S) == CHOOSE x \in S : \A y \in S : y <= x

SetMin(S) == CHOOSE x \in S : \A y \in S : x <= y

SeqsUpTo(S, n) == UNION {[1..k -> S] : k \in 0..n}

(***************************************************************************)
(* Timestamp cells.                                                        *)
(***************************************************************************)
TsText(m, s) == [mm |-> m, ss |-> s]

TsGarbage == [raw |-> "not-a-date"]

IsDatetime(v) == "epoch" \in DOMAIN v

Parsable(v) == IsDatetime(v) \/ "mm" \in DOMAIN v

\* pd.to_datetime on one cell: text to an instant; an instant is left as it is.
ToDatetime(v) == IF IsDatetime(v) THEN v ELSE [epoch |-> 60 * v.mm + v.ss]

Row(i, t, s) == [ip |-> i, timestamp |-> t, status |-> s]

(***************************************************************************)
(* st.session_state as a fresh session has it (app.py:35-56 and            *)
(* utils.init_session_state): the fields the dashboard model reads.        *)
(***************************************************************************)
FreshSession ==
    [uploader |-> FALSE,                  \* a file is in the st.file_uploader widget
     file_uploaded |-> FALSE,
     ai_analysis_status |-> "not_started",
     analysis_results |-> [none |-> TRUE],
     metrics |-> FALSE,                   \* metrics is not None
     df |-> FALSE,                        \* df is not None
     agent |-> FALSE,                     \* agent is not None
     messages |-> <<>>]

NoRuns == [uploads |-> 0, summaries |-> 0]

\* the specifications of single functions leave the dashboard alone
NoDashboard == session = FreshSession /\ runs = NoRuns

(***************************************************************************)
(* get_next_batch.                                                         *)
(***************************************************************************)
\* df.iloc[lo:hi]: positions lo .. hi-1 (0-based), clipped to the frame.
Iloc(df, lo, hi) == IF lo >= Len(df) THEN <<>> ELSE SubSeq(df, lo + 1, Min(hi, Len(df)))

NextIndexNoWrap(ci, b, n) == ci + b

NextIndexWrapPast(ci, b, n) == IF ci + b > n THEN 0 ELSE ci + b

\* current_index += batch_size; if current_index >= len(df): current_index = 0
NextIndex(ci, b, n) == IF ci + b >= n THEN 0 ELSE ci + b

NextBatchIdCyclic(id) == (id + 1) % 3

\* current_batch_id += 1
NextBatchId(id) == id + 1

DrawnBatchFromCache ==
    IF calls = 0
    THEN Iloc(csv, current_index, current_index + batch_size)
    ELSE Iloc(batch, current_index, current_index + batch_size)

\* df = pd.read_csv(csv_path); batch = df.iloc[current_index:current_index + batch_size]
DrawnBatch == Iloc(csv, current_index, current_index + batch_size)

Advance ==
    /\ current_index' = NextIndex(current_index, batch_size, Len(csv))
    /\ current_batch_id' = NextBatchId(current_batch_id)
    /\ calls' = calls + 1

NoMetrics == [none |-> TRUE]

\* a call that does not run analyze_patterns
NoRun == env' = <<>> /\ trace' = <<>>

Ret(o, r, m, p) == [op |-> o, raised |-> r, metrics |-> m, patterns |-> p]

GetNextBatch ==
    /\ arg' = <<>>
    /\ batch' = DrawnBatch
    /\ Advance
    /\ ret' = Ret("get_next_batch", FALSE, NoMetrics, <<>>)
    /\ NoRun
    /\ UNCHANGED <<csv, batch_size, session, runs>>

(***************************************************************************)
(* calculate_metrics.                                                      *)
(***************************************************************************)
ColumnParses(df) == \A i \in 1..Len(df) : Parsable(df[i].timestamp)

\* df['timestamp'] = pd.to_datetime(df['timestamp'])
ConvertTimestamps(df) == [i \in 1..Len(df) |-> [df[i] EXCEPT !.timestamp = ToDatetime(@)]]

Epochs(df) == {df[i].timestamp.epoch : i \in 1..Len(df)}

\* (df['timestamp'].max() - df['timestamp'].min()).total_seconds(), df not empty
TimeDiff(df) == SetMax(Epochs(df)) - SetMin(Epochs(df))

RequestsPerSecondCount(df) ==
    IF Len(df) > 0 /\ TimeDiff(df) > 0 THEN Len(df) \div TimeDiff(df) ELSE Len(df)

RequestsPerSecondZero(df) ==
    IF Len(df) > 0 /\ TimeDiff(df) > 0 THEN Len(df) \div TimeDiff(df) ELSE 0

RequestsPerSecondNearest(df) ==
    IF Len(df) > 0 /\ TimeDiff(df) > 0
    THEN (2 * Len(df) + TimeDiff(df)) \div (2 * TimeDiff(df))
    ELSE 1

\* int(len(df) / time_diff if time_diff > 0 else 1); on an empty frame the
\* difference is NaT, its total_seconds() is nan, and nan > 0 is false.
RequestsPerSecond(df) ==
    IF Len(df) > 0 /\ TimeDiff(df) > 0 THEN Len(df) \div TimeDiff(df) ELSE 1

\* df[df['status'].between(200, 299)].shape[0]
SuccessCount(df) == Cardinality({i \in 1..Len(df) : df[i].status >= 200 /\ df[i].status <= 299})

\* round(num / den, 0) of Python: to nearest, ties to even
RoundHalfEven(num, den) ==
    LET q == num \div den
        r == num % den
    IN  IF 2 * r < den THEN q
        ELSE IF 2 * r > den THEN q + 1
        ELSE IF q % 2 = 0 THEN q ELSE q + 1

ErrorRateOfSuccesses(df) ==
    IF SuccessCount(df) > 0
    THEN RoundHalfEven(1000 * (Len(df) - SuccessCount(df)), SuccessCount(df))
    ELSE 0

\* round(((len(df) - success_count) / len(df)) * 100 if len(df) > 0 else 0, 1),
\* in tenths of a percent
ErrorRate(df) ==
    IF Len(df) > 0
    THEN RoundHalfEven(1000 * (Len(df) - SuccessCount(df)), Len(df))
    ELSE 0

\* df['ip'].nunique()
UniqueIps(df) == Cardinality({df[i].ip : i \in 1..Len(df)})

MetricsRecord(df) ==
    [requests_per_second |-> RequestsPerSecond(df),
     error_rate |-> ErrorRate(df),
     unique_ips |-> UniqueIps(df)]

CalculateMetricsStrict(df) ==
    IF Len(df) = 0 \/ ~ColumnParses(df)
    THEN [raised |-> TRUE, df |-> df, metrics |-> NoMetrics]
    ELSE [raised |-> FALSE, df |-> ConvertTimestamps(df),
          metrics |-> MetricsRecord(ConvertTimestamps(df))]

CalculateMetricsOnCopy(df) ==
    IF ~ColumnParses(df)
    THEN [raised |-> TRUE, df |-> df, metrics |-> NoMetrics]
    ELSE [raised |-> FALSE, df |-> df, metrics |-> MetricsRecord(ConvertTimestamps(df))]

\* The whole of calculate_metrics: to_datetime raises on a cell that is no
\* date, before the column is assigned; otherwise the column of the frame
\* passed in is replaced and the metrics are returned.
CalculateMetrics(df) ==
    IF ~ColumnParses(df)
    THEN [raised |-> TRUE, df |-> df, metrics |-> NoMetrics]
    ELSE [raised |-> FALSE, df |-> ConvertTimestamps(df),
          metrics |-> MetricsRecord(ConvertTimestamps(df))]

CalculateMetricsCall ==
    LET r == CalculateMetrics(batch)
    IN  /\ arg' = batch
        /\ batch' = r.df
        /\ ret' = Ret("calculate_metrics", r.raised, r.metrics, <<>>)
        /\ NoRun
        /\ UNCHANGED <<csv, current_index, batch_size, current_batch_id, calls, session, runs>>

(***************************************************************************)
(* analyze_patterns.  The model's reply and the memory store are outside   *)
(* the program: per group the environment gives whether mem0.search        *)
(* returns, what the model replies, and whether mem0.add returns.          *)
(***************************************************************************)
ReasoningBlock(c) ==
    [pattern_type |-> "scan", description |-> "text", confidence |-> c,
     indicators |-> <<"indicator">>]

MetricsBlock == [requests_per_second |-> 1, time_window_seconds |-> 10]

Prediction(p, c) ==
    [prediction |-> p, reasoning |-> ReasoningBlock(c), metrics |-> MetricsBlock]

\* JSON objects a reply may decode to
JsonObjects ==
    {Prediction("normal", 10), Prediction("abnormal", 90),
     Prediction("suspicious", 50),
     Prediction("abnormal", 150),
     [reasoning |-> ReasoningBlock(90), metrics |-> MetricsBlock],
     [prediction |-> "abnormal", metrics |-> MetricsBlock],
     [prediction |-> "abnormal", reasoning |-> ReasoningBlock(90)],
     [prediction |-> "normal",
      reasoning |-> [pattern_type |-> "scan", confidence |-> 10,
                     indicators |-> <<"indicator">>],
      metrics |-> MetricsBlock],
     [prediction |-> "normal", reasoning |-> ReasoningBlock(10),
      metrics |-> [requests_per_second |-> 1]]}

\* the model call raises; the reply holds no JSON; the reply decodes to a JSON
\* array; the reply decodes to a JSON object
Replies ==
    {[kind |-> "invoke_error"], [kind |-> "no_json"], [kind |-> "json_array"]}
        \cup {[kind |-> "json_object", obj |-> o] : o \in JsonObjects}

GroupEnv(s, r, a) == [search_ok |-> s, reply |-> r, add_ok |-> a]

\* what can happen to one group: the search raises (the model then being down,
\* or ready with a valid reply); or it returns and the model replies, and for
\* a decoded object mem0.add returns or raises.
GroupEnvs ==
    {GroupEnv(FALSE, [kind |-> "invoke_error"], TRUE),
     GroupEnv(FALSE, [kind |-> "json_object", obj |-> Prediction("normal", 10)], TRUE)}
        \cup {GroupEnv(TRUE, r, TRUE) : r \in Replies}
        \cup {GroupEnv(TRUE, r, FALSE) : r \in {x \in Replies : x.kind = "json_object"}}

RECURSIVE SortedSeq(_)
\* the elements of a set of numbers in ascending order
SortedSeq(S) == IF S = {} THEN <<>> ELSE <<SetMin(S)>> \o SortedSeq(S \ {SetMin(S)})

Keys(df) == {df[i].ip : i \in 1..Len(df)}

GroupByIpFirstSeen(df) ==
    LET firstAt(k) == SetMin({i \in 1..Len(df) : df[i].ip = k})
        ranked == {<<firstAt(k), k>> : k \in Keys(df)}
    IN  [n \in 1..Cardinality(Keys(df)) |->
            (CHOOSE p \in ranked :
                Cardinality({q \in ranked : q[1] < p[1]}) = n - 1)[2]]

\* df.groupby('ip'): the group keys, in sorted order (sort=True is the default)
GroupByIp(df) == SortedSeq(Keys(df))

GroupOf(df, k) == SelectSeq(df, LAMBDA r : r.ip = k)

SummaryBuildsOnText(group) == TRUE

\* create_log_summary calls .strftime on the group's min and max timestamp:
\* a text cell has none (AttributeError)
SummaryBuilds(group) == \A i \in 1..Len(group) : IsDatetime(group[i].timestamp)

\* JsonOutputParser.parse_result: the reply text decoded, whatever it holds;
\* pydantic_object only shapes the format instructions of the prompt.
ChainReturns(reply) == reply.kind \in {"json_array", "json_object"}

\* response['timestamp'] = ... needs a dict
AcceptsTimestamp(reply) == reply.kind = "json_object"

\* response['timestamp'] = group['timestamp'].iloc[0]
Stamped(group, obj) == [timestamp |-> group[1].timestamp] @@ obj

\* chain.invoke: the model call returns a reply
InvokeReturns(reply) == reply.kind # "invoke_error"

\* the arguments of save_interaction read response['prediction'] and
\* response['reasoning']['description']
SaveArgsBuild(reply) ==
    /\ reply.kind = "json_object"
    /\ "prediction" \in DOMAIN reply.obj
    /\ "reasoning" \in DOMAIN reply.obj
    /\ "description" \in DOMAIN reply.obj.reasoning

StepOutcomesSaveFirst(group, e) ==
    <<[step |-> "summary", ok |-> SummaryBuilds(group)],
      [step |-> "search", ok |-> e.search_ok],
      [step |-> "invoke", ok |-> InvokeReturns(e.reply)],
      [step |-> "parse", ok |-> ChainReturns(e.reply)],
      [step |-> "stamp", ok |-> AcceptsTimestamp(e.reply)],
      [step |-> "save_args", ok |-> SaveArgsBuild(e.reply)],
      [step |-> "save", ok |-> e.add_ok],
      [step |-> "append", ok |-> TRUE]>>

\* the statements of the loop body in program order, each with whether it
\* completes (ok) or raises
StepOutcomes(group, e) ==
    <<[step |-> "summary", ok |-> SummaryBuilds(group)],
      [step |-> "search", ok |-> e.search_ok],
      [step |-> "invoke", ok |-> InvokeReturns(e.reply)],
      [step |-> "parse", ok |-> ChainReturns(e.reply)],
      [step |-> "stamp", ok |-> AcceptsTimestamp(e.reply)],
      [step |-> "append", ok |-> TRUE],
      [step |-> "save_args", ok |-> SaveArgsBuild(e.reply)],
      [step |-> "save", ok |-> e.add_ok]>>

\* one pass of the loop body: the statements run, up to the first that raises
GroupTrace(group, e) ==
    LET all == StepOutcomes(group, e)
        bad == {i \in 1..Len(all) : ~all[i].ok}
        n == IF bad = {} THEN Len(all) ELSE SetMin(bad)
    IN  [i \in 1..n |-> [ip |-> group[1].ip, step |-> all[i].step, ok |-> all[i].ok]]

\* one pass of the loop body for a group: TRUE when patterns.append is reached
Appends(group, e) ==
    /\ SummaryBuilds(group)
    /\ e.search_ok
    /\ ChainReturns(e.reply)
    /\ AcceptsTimestamp(e.reply)

CaughtNothing(step) == FALSE

CaughtExceptParse(step) == step # "parse"

CaughtExceptSave(step) == step # "save"

\* except Exception as e: print(...) -- whatever statement raised
Caught(step) == TRUE

RECURSIVE AnalyzeGroups(_, _, _)
\* for _, group in df.groupby('ip'): try: ... except Exception: ...
AnalyzeGroups(df, keys, e) ==
    IF keys = <<>> THEN [raised |-> FALSE, patterns |-> <<>>, trace |-> <<>>]
    ELSE LET k == Head(keys)
             group == GroupOf(df, k)
             t == GroupTrace(group, e[k])
             own == IF Appends(group, e[k])
                    THEN <<Stamped(group, e[k].reply.obj)>>
                    ELSE <<>>
         IN  IF ~t[Len(t)].ok /\ ~Caught(t[Len(t)].step)
             THEN [raised |-> TRUE, patterns |-> <<>>, trace |-> t]
             ELSE LET rest == AnalyzeGroups(df, Tail(keys), e)
                  IN  [raised |-> rest.raised,
                       patterns |-> IF rest.raised THEN <<>> ELSE own \o rest.patterns,
                       trace |-> t \o rest.trace]

\* The whole of analyze_patterns: every exception of a group's pass is caught
\* inside the loop, after patterns.append as well (a KeyError of
\* response['prediction'] or a raising mem0.add leaves the record in place).
AnalyzePatterns(df, e) == AnalyzeGroups(df, GroupByIp(df), e)

AnalyzePatternsCall(envs) ==
    \E e \in [Keys(batch) -> envs] :
        LET r == AnalyzePatterns(batch, e)
        IN  /\ arg' = batch
            /\ ret' = Ret("analyze_patterns", r.raised, NoMetrics, r.patterns)
            /\ env' = e
            /\ trace' = r.trace
            /\ UNCHANGED <<csv, current_index, batch_size, current_batch_id, batch, calls, session, runs>>

(***************************************************************************)
(* process_logs.                                                           *)
(***************************************************************************)
ProcessLogsRollback(envs) ==
    LET df == DrawnBatch
        m == CalculateMetrics(df)
    IN  /\ arg' = df
        /\ batch' = m.df
        /\ IF m.raised
           THEN /\ ret' = Ret("process_logs", TRUE, NoMetrics, <<>>)
                /\ NoRun
                /\ UNCHANGED <<current_index, current_batch_id, calls>>
           ELSE /\ Advance
                /\ \E e \in [Keys(df) -> envs] :
                       LET r == AnalyzePatterns(m.df, e)
                       IN  /\ ret' = Ret("process_logs", FALSE, m.metrics, r.patterns)
                           /\ env' = e
                           /\ trace' = r.trace
        /\ UNCHANGED <<csv, batch_size, session, runs>>

ProcessLogs(envs) ==
    LET df == DrawnBatch
        m == CalculateMetrics(df)
    IN  /\ Advance
        /\ arg' = df
        /\ batch' = m.df
        /\ IF m.raised
           THEN ret' = Ret("process_logs", TRUE, NoMetrics, <<>>) /\ NoRun
           ELSE \E e \in [Keys(df) -> envs] :
                    LET r == AnalyzePatterns(m.df, e)
                    IN  /\ ret' = IF r.raised
                                  THEN Ret("process_logs", TRUE, NoMetrics, <<>>)
                                  ELSE Ret("process_logs", FALSE, m.metrics, r.patterns)
                        /\ env' = e
                        /\ trace' = r.trace
        /\ UNCHANGED <<csv, batch_size, session, runs>>

(***************************************************************************)
(* Specification of the cursor: a file whose rows do not change, drawn     *)
(* from repeatedly.  Row i of the generated file carries the instant i, so *)
(* every row of a file is distinct and a slice is known by its content.    *)
(***************************************************************************)
GenRow(i) == Row(i % 3, TsText(i \div 60, i % 60), 200)

GenFile(n) == [i \in 1..n |-> GenRow(i)]

BatchSizes == 1..DefaultBatchSize

InitCursor ==
    /\ csv \in {GenFile(n) : n \in 1..MaxFileRows}
    /\ current_index = 0
    /\ batch_size \in BatchSizes
    /\ current_batch_id = 0
    /\ batch = <<>>
    /\ arg = <<>>
    /\ ret = Ret("none", FALSE, NoMetrics, <<>>)
    /\ calls = 0
    /\ env = <<>>
    /\ trace = <<>>
    /\ NoDashboard

NextCursor == calls < MaxCalls /\ GetNextBatch

SpecCursor == InitCursor /\ [][NextCursor]_vars

(***************************************************************************)
(* Specification of calculate_metrics as a function of the frame passed.   *)
(***************************************************************************)
MetricIps == {1, 2}

MetricTimes == {TsText(0, 55), TsText(0, 57), TsText(1, 5)}

MetricStatuses == {200, 301, 404}

\* well-formed rows, and one row whose timestamp is no date
MetricRows ==
    {Row(i, t, s) : i \in MetricIps, t \in MetricTimes, s \in MetricStatuses}
        \cup {Row(1, TsGarbage, 200)}

InitMetrics ==
    /\ csv = <<>>
    /\ current_index = 0
    /\ batch_size = DefaultBatchSize
    /\ current_batch_id = 0
    /\ batch \in SeqsUpTo(MetricRows, MaxBatchRows)
    /\ arg = <<>>
    /\ ret = Ret("none", FALSE, NoMetrics, <<>>)
    /\ calls = 0
    /\ env = <<>>
    /\ trace = <<>>
    /\ NoDashboard

NextMetrics == CalculateMetricsCall

SpecMetrics == InitMetrics /\ [][NextMetrics]_vars

(***************************************************************************)
(* Specification of analyze_patterns as a function of the frame passed: a  *)
(* frame as read from the file, or one whose timestamp column was          *)
(* converted before.                                                       *)
(***************************************************************************)
PatternRows == {Row(i, t, 200) : i \in {1, 2}, t \in {TsText(0, 55), TsText(1, 5)}}

InitPatterns ==
    /\ csv = <<>>
    /\ current_index = 0
    /\ batch_size = DefaultBatchSize
    /\ current_batch_id = 0
    /\ \E raw \in SeqsUpTo(PatternRows, MaxBatchRows) :
           batch \in {raw, ConvertTimestamps(raw)}
    /\ arg = <<>>
    /\ ret = Ret("none", FALSE, NoMetrics, <<>>)
    /\ calls = 0
    /\ env = <<>>
    /\ trace = <<>>
    /\ NoDashboard

\* one call on each frame drawn
NextPatterns == ret.op = "none" /\ AnalyzePatternsCall(GroupEnvs)

SpecPatterns == InitPatterns /\ [][NextPatterns]_vars

(***************************************************************************)
(* Specification of a processor over a file that other programs append to  *)
(* and rewrite between calls.                                              *)
(***************************************************************************)
FileRows ==
    {Row(1, TsText(0, 55), 200), Row(2, TsText(1, 5), 404), Row(1, TsGarbage, 200)}

\* per group: classified as normal, or the call fails
CycleEnvs ==
    {GroupEnv(TRUE, [kind |-> "json_object", obj |-> Prediction("normal", 10)], TRUE),
     GroupEnv(TRUE, [kind |-> "invoke_error"], TRUE)}

Init ==
    /\ csv \in SeqsUpTo(FileRows, MaxSmallFile)
    /\ current_index = 0
    /\ batch_size \in 1..MaxSmallBatch
    /\ current_batch_id = 0
    /\ batch = <<>>
    /\ arg = <<>>
    /\ ret = Ret("none", FALSE, NoMetrics, <<>>)
    /\ calls = 0
    /\ env = <<>>
    /\ trace = <<>>
    /\ NoDashboard

AppendRow ==
    /\ Len(csv) < MaxSmallFile
    /\ \E r \in FileRows : csv' = Append(csv, r)
    /\ UNCHANGED <<current_index, batch_size, current_batch_id, batch, arg, ret, calls,
                   env, trace, session, runs>>

TruncateFile ==
    /\ Len(csv) > 0
    /\ csv' = SubSeq(csv, 1, Len(csv) - 1)
    /\ UNCHANGED <<current_index, batch_size, current_batch_id, batch, arg, ret, calls,
                   env, trace, session, runs>>

Next ==
    \/ calls < MaxDraws /\ GetNextBatch
    \/ calls < MaxDraws /\ ProcessLogs(CycleEnvs)
    \/ CalculateMetricsCall
    \/ AnalyzePatternsCall(CycleEnvs)
    \/ AppendRow
    \/ TruncateFile

Spec == Init /\ [][Next]_vars

(***************************************************************************)
(* LogAnalyzer._extract_json_from_text.  A reply text is a sequence of    *)
(* lexical pieces: "p" a run of prose, "f" a code fence, "{" and "}" the   *)
(* braces, "m" a member with a scalar value ("k": 1), "n" a key awaiting   *)
(* an object value ("k":).  The text passed is in arg, the value returned  *)
(* in ret.                                                                 *)
(***************************************************************************)
MaxTextLen == 6

Tokens == {"p", "f", "{", "}", "m", "n"}

None == [none |-> TRUE]

Scalar == [scalar |-> TRUE]

ParseFails == [ok |-> FALSE, value |-> None, rest |-> <<>>]

\* json.loads reads one object: "{", members, "}"; a member is "m" or "n"
\* followed by an object; anything else is a JSONDecodeError
RECURSIVE ParseMembers(_, _, _)
ParseMembers(s, acc, depth) ==
    IF s = <<>> THEN <<ParseFails>>
    ELSE IF Head(s) = "}"
         THEN IF depth = 0
              THEN <<[ok |-> TRUE, value |-> acc[1], rest |-> Tail(s)]>>
              ELSE ParseMembers(Tail(s),
                                SubSeq(acc, 1, Len(acc) - 2)
                                    \o <<[members |-> Append(acc[Len(acc) - 1].members,
                                                             acc[Len(acc)])]>>,
                                depth - 1)
    ELSE IF Head(s) = "m"
         THEN ParseMembers(Tail(s),
                           SubSeq(acc, 1, Len(acc) - 1)
                               \o <<[members |-> Append(acc[Len(acc)].members, Scalar)]>>,
                           depth)
    ELSE IF Head(s) = "n" /\ Len(s) >= 2 /\ s[2] = "{"
         THEN ParseMembers(Tail(Tail(s)), Append(acc, [members |-> <<>>]), depth + 1)
    ELSE <<ParseFails>>

ParseObj(s) ==
    IF s = <<>> \/ Head(s) # "{" THEN ParseFails
    ELSE ParseMembers(Tail(s), <<[members |-> <<>>]>>, 0)[1]

\* json.loads(match): text left over after the object is "Extra data"
JsonLoads(s) ==
    LET r == ParseObj(s)
    IN  IF r.ok /\ r.rest = <<>>
        THEN [raised |-> FALSE, value |-> r.value]
        ELSE [raised |-> TRUE, value |-> None]

FindAllShortest(text) ==
    LET opens == {i \in 1..Len(text) : text[i] = "{"}
        closes == {j \in 1..Len(text) : text[j] = "}"}
    IN  IF opens = {} \/ {j \in closes : j > SetMin(opens)} = {} THEN <<>>
        ELSE <<SubSeq(text, SetMin(opens), SetMin({j \in closes : j > SetMin(opens)}))>>

\* re.findall(r'\{[\s\S]*\}', text): the pattern is greedy, so the one match
\* runs from the first "{" to the last "}" of the text
FindAll(text) ==
    LET opens == {i \in 1..Len(text) : text[i] = "{"}
        closes == {j \in 1..Len(text) : text[j] = "}"}
    IN  IF opens = {} \/ closes = {} \/ SetMax(closes) < SetMin(opens) THEN <<>>
        ELSE <<SubSeq(text, SetMin(opens), SetMax(closes))>>

\* for match in matches: the first match that decodes is returned
RECURSIVE FirstDecoded(_)
FirstDecoded(matches) ==
    IF matches = <<>> THEN None
    ELSE LET r == JsonLoads(Head(matches))
         IN  IF r.raised THEN FirstDecoded(Tail(matches)) ELSE r.value

ExtractJsonFromText(text) ==
    LET matches == FindAll(text)
    IN  IF matches = <<>> THEN [raised |-> FALSE, value |-> None]
        ELSE [raised |-> FALSE, value |-> FirstDecoded(matches)]

ExtractJsonCall ==
    LET r == ExtractJsonFromText(arg)
    IN  /\ ret.op = "none"
        /\ ret' = [op |-> "_extract_json_from_text", raised |-> r.raised, value |-> r.value]
        /\ UNCHANGED <<csv, current_index, batch_size, current_batch_id, batch, arg, calls,
                       env, trace, session, runs>>

InitExtract ==
    /\ csv = <<>>
    /\ current_index = 0
    /\ batch_size = DefaultBatchSize
    /\ current_batch_id = 0
    /\ batch = <<>>
    /\ arg \in SeqsUpTo(Tokens, MaxTextLen)
    /\ ret = [op |-> "none", raised |-> FALSE, value |-> None]
    /\ calls = 0
    /\ env = <<>>
    /\ trace = <<>>
    /\ NoDashboard

NextExtract == ExtractJsonCall

SpecExtract == InitExtract /\ [][NextExtract]_vars

(***************************************************************************)
(* LogAnalyzer.parse_logs.  The file is a sequence of rows of text cells   *)
(* (dtype str): [text, quoted] a text cell, [int] text that is an integer, *)
(* [junk] text that is none, [na] a cell pandas read as NaN ('-' or        *)
(* empty); the timestamp cell is as in the processor.  The id of a row is  *)
(* its position in the file.  The call's arguments are in arg, the list    *)
(* returned in ret.                                                        *)
(***************************************************************************)
MaxParseRows == 3

MaxLinesArg == 3

NaCell == [na |-> TRUE]

TextCell(q) == [text |-> "x", quoted |-> q]

IntCell(n) == [int |-> n]

JunkCell == [junk |-> TRUE]

Raises == [raised |-> TRUE, value |-> NaCell]

Returns(v) == [raised |-> FALSE, value |-> v]

\* row[...].strip('"'): NaN is a float and has no strip (AttributeError)
StripQuotes(cell) ==
    IF "text" \in DOMAIN cell THEN Returns([text |-> cell.text, quoted |-> FALSE]) ELSE Raises

\* datetime.strptime(cell, '%Y-%m-%d %H:%M:%S %z'): ValueError on other
\* text, TypeError on NaN
Strptime(cell) ==
    IF "mm" \in DOMAIN cell THEN Returns([epoch |-> 60 * cell.mm + cell.ss]) ELSE Raises

\* int(cell): ValueError on text that is no integer or on NaN
IntOf(cell) == IF "int" \in DOMAIN cell THEN Returns(cell.int) ELSE Raises

BytesSentStrict(cell) == IntOf(cell)

\* try: bytes_sent = int(row['bytes_sent']) except (ValueError, TypeError): 0
BytesSent(cell) == IF IntOf(cell).raised THEN Returns(0) ELSE IntOf(cell)

LogRow(m, t, b, st, r) ==
    [method |-> m, timestamp |-> t, bytes_sent |-> b, status |-> st, referer |-> r]

\* the body of the loop for one row: the entry appended, or none when a
\* statement raised (except Exception: continue) or the status is invalid
ParseRow(row, id) ==
    LET method == StripQuotes(row.method)
        timestamp == Strptime(row.timestamp)
        bytes_sent == BytesSent(row.bytes_sent)
        status == IntOf(row.status)
        referer == StripQuotes(row.referer)
    IN  IF \/ method.raised \/ timestamp.raised \/ bytes_sent.raised
           \/ status.raised \/ referer.raised
        THEN <<>>
        ELSE <<[id |-> id, timestamp |-> timestamp.value, method |-> method.value,
                status |-> status.value, bytes_sent |-> bytes_sent.value,
                referer |-> referer.value]>>

RECURSIVE ParseRows(_, _)
ParseRows(df, id) ==
    IF id > Len(df) THEN <<>> ELSE ParseRow(df[id], id) \o ParseRows(df, id + 1)

\* pd.read_csv(..., nrows=max_lines) raises when the file cannot be read;
\* the outer except returns []
ParseLogs(file, readable, max_lines) ==
    IF ~readable THEN <<>>
    ELSE LET df == SubSeq(file, 1, Min(max_lines, Len(file)))
         IN  IF df = <<>> THEN <<>> ELSE ParseRows(df, 1)

ParseLogsCall ==
    /\ ret.op = "none"
    /\ ret' = [op |-> "parse_logs", raised |-> FALSE,
               entries |-> ParseLogs(csv, arg.readable, arg.max_lines)]
    /\ UNCHANGED <<csv, current_index, batch_size, current_batch_id, batch, arg, calls,
                   env, trace, session, runs>>

\* a well-formed row, and rows with one or two cells that do not parse
LogRows ==
    {LogRow(TextCell(TRUE), TsText(0, 55), IntCell(512), IntCell(200), TextCell(TRUE)),
     LogRow(TextCell(FALSE), TsText(1, 5), JunkCell, IntCell(404), TextCell(FALSE)),
     LogRow(TextCell(TRUE), TsText(0, 55), NaCell, IntCell(200), TextCell(TRUE)),
     LogRow(TextCell(TRUE), TsText(0, 55), IntCell(512), JunkCell, TextCell(TRUE)),
     LogRow(TextCell(TRUE), TsText(0, 55), IntCell(512), NaCell, TextCell(TRUE)),
     LogRow(TextCell(TRUE), TsGarbage, IntCell(512), IntCell(200), TextCell(TRUE)),
     LogRow(TextCell(TRUE), NaCell, JunkCell, IntCell(200), TextCell(TRUE)),
     LogRow(TextCell(TRUE), TsText(1, 5), IntCell(0), IntCell(500), NaCell),
     LogRow(NaCell, TsText(1, 5), JunkCell, IntCell(200), TextCell(TRUE))}

InitParse ==
    /\ csv \in SeqsUpTo(LogRows, MaxParseRows)
    /\ current_index = 0
    /\ batch_size = DefaultBatchSize
    /\ current_batch_id = 0
    /\ batch = <<>>
    /\ arg \in [readable : BOOLEAN, max_lines : 0..MaxLinesArg]
    /\ ret = [op |-> "none", raised |-> FALSE, entries |-> <<>>]
    /\ calls = 0
    /\ env = <<>>
    /\ trace = <<>>
    /\ NoDashboard

NextParse == ParseLogsCall

SpecParse == InitParse /\ [][NextParse]_vars

(***************************************************************************)
(* LogAnalyzer.generate_ai_summary.  logs is known by its number of lines; *)
(* the Bedrock reply is an error, or a text: some prose or fence, an       *)
(* object with one scalar member per key of reply.keys, and a tail.  The   *)
(* arguments and the collaborator's reply are in arg, the outcome in ret,  *)
(* with the number of log lines put in the message.                        *)
(***************************************************************************)
MAX_LOGS == 500

TemplateKeys ==
    {"http_status_distribution", "suspicious_ip_activity", "large_response_anomalies",
     "suspicious_path_analysis", "user_agent_analysis", "recommendations"}

ReplyKeys == TemplateKeys \cup {"severity"}

RECURSIVE Members(_)
Members(n) == IF n = 0 THEN <<>> ELSE <<"m">> \o Members(n - 1)

\* the text of a reply: pre, the object, post
ReplyText(reply) ==
    reply.pre \o <<"{">> \o Members(Cardinality(reply.keys)) \o <<"}">> \o reply.post

\* logs[:MAX_LOGS] if len(logs) > MAX_LOGS else logs
SampledLogs(n) == IF n > MAX_LOGS THEN MAX_LOGS ELSE n

\* _generate_bedrock_message: the text of the reply, None when invoke_model
\* or the decoding of its body raises
GenerateBedrockMessage(reply) ==
    IF reply.kind = "error" THEN None
    ELSE IF reply.kind = "empty" THEN <<>>
    ELSE ReplyText(reply)

\* the dict json.loads built: the members of the object under their keys
DictOf(decoded, reply) ==
    IF decoded = None THEN None
    ELSE [k \in {x \in reply.keys : Len(decoded.members) > 0} |-> "from_model"]

WithoutDefaults(summary) == summary

\* for key in ANALYSIS_TEMPLATE.keys(): if key not in summary: summary[key] = ...
WithDefaults(summary) ==
    [k \in DOMAIN summary \cup TemplateKeys |->
        IF k \in DOMAIN summary THEN summary[k] ELSE "No analysis available"]

SummaryOutcome(called, n, v) ==
    [op |-> "generate_ai_summary", raised |-> FALSE, called |-> called, sent |-> n,
     value |-> v]

GenerateAiSummary(client, logs, reply) ==
    IF ~client THEN SummaryOutcome(FALSE, 0, None)
    ELSE LET sent == SampledLogs(logs)
             response == GenerateBedrockMessage(reply)
         IN  IF response = None \/ response = <<>>
             THEN SummaryOutcome(TRUE, sent, None)
             ELSE LET summary == DictOf(ExtractJsonFromText(response).value, reply)
                  IN  IF summary = None \/ DOMAIN summary = {}
                      THEN SummaryOutcome(TRUE, sent, None)
                      ELSE SummaryOutcome(TRUE, sent, WithDefaults(summary))

GenerateAiSummaryCall ==
    /\ ret.op = "none"
    /\ ret' = GenerateAiSummary(arg.client, arg.logs, arg.reply)
    /\ UNCHANGED <<csv, current_index, batch_size, current_batch_id, batch, arg, calls,
                   env, trace, session, runs>>

LogCounts == {0, 1, MAX_LOGS - 1, MAX_LOGS, MAX_LOGS + 1, 2 * MAX_LOGS}

BedrockReplies ==
    {[kind |-> "error"], [kind |-> "empty"]}
        \cup [kind : {"text"},
              pre : {<<>>, <<"p">>, <<"f">>},
              keys : SUBSET ReplyKeys,
              post : {<<>>, <<"p">>, <<"f", "p">>, <<"p", "}">>, <<"p", "{">>}]
        \cup {[kind |-> "text", pre |-> <<"p">>, keys |-> {}, post |-> <<"p">>]}

InitSummary ==
    /\ csv = <<>>
    /\ current_index = 0
    /\ batch_size = DefaultBatchSize
    /\ current_batch_id = 0
    /\ batch = <<>>
    /\ arg \in [client : BOOLEAN, logs : LogCounts, reply : BedrockReplies]
    /\ ret = [op |-> "none", raised |-> FALSE, called |-> FALSE, sent |-> 0, value |-> None]
    /\ calls = 0
    /\ env = <<>>
    /\ trace = <<>>
    /\ NoDashboard

NextSummary == GenerateAiSummaryCall

SpecSummary == InitSummary /\ [][NextSummary]_vars

(***************************************************************************)
(* inference.classify_logs_with_openai.  One reply of the model per        *)
(* prompt: the call raises, or a text, known by whether the word 'normal'  *)
(* and the word 'abnormal' occur in it.  The replies the model would give  *)
(* are in arg, the list returned in ret.                                   *)
(***************************************************************************)
MaxPrompts == 3

\* def get_response(self, prompt: str)
GetResponseParams == {"prompt"}

\* llm.get_response(system_prompt=..., prompt=..., conversation_history=[])
CallKeywords == {"system_prompt", "prompt", "conversation_history"}

\* a call with a keyword the function does not take is a TypeError; else
\* the reply of self.bot.invoke
GetResponse(keywords, reply) ==
    IF ~(keywords \subseteq GetResponseParams) THEN Raises
    ELSE IF reply.kind = "raise" THEN Raises
    ELSE Returns(reply)

\* 'normal' in classification: a substring test, true of 'abnormal' as well
InNormal(text) == text.normal \/ text.abnormal

\* 'abnormal' in classification
InAbnormal(text) == text.abnormal

LabelOf(text) ==
    IF InNormal(text) THEN "normal"
    ELSE IF InAbnormal(text) THEN "abnormal"
    ELSE "abnormal"

\* for prompt in prompts: try ... except Exception: append('error'); break
RECURSIVE ClassifyLoop(_)
ClassifyLoop(replies) ==
    IF replies = <<>> THEN <<>>
    ELSE LET r == GetResponse(CallKeywords, Head(replies))
         IN  IF r.raised THEN <<"error">>
             ELSE <<LabelOf(r.value)>> \o ClassifyLoop(Tail(replies))

ClassifyLogsCall ==
    /\ ret.op = "none"
    /\ ret' = [op |-> "classify_logs_with_openai", raised |-> FALSE,
               labels |-> ClassifyLoop(arg)]
    /\ UNCHANGED <<csv, current_index, batch_size, current_batch_id, batch, arg, calls,
                   env, trace, session, runs>>

ModelReplies ==
    {[kind |-> "raise"]} \cup [kind : {"text"}, normal : BOOLEAN, abnormal : BOOLEAN]

InitClassify ==
    /\ csv = <<>>
    /\ current_index = 0
    /\ batch_size = DefaultBatchSize
    /\ current_batch_id = 0
    /\ batch = <<>>
    /\ arg \in SeqsUpTo(ModelReplies, MaxPrompts)
    /\ ret = [op |-> "none", raised |-> FALSE, labels |-> <<>>]
    /\ calls = 0
    /\ env = <<>>
    /\ trace = <<>>
    /\ NoDashboard

NextClassify == ClassifyLogsCall

SpecClassify == InitClassify /\ [][NextClassify]_vars

(***************************************************************************)
(* The dashboard (app.py main, utils.create_chat_interface).  One action   *)
(* is one run of the script, started by one event of the page; the event   *)
(* is recorded in ret and what the collaborators did in arg.               *)
(***************************************************************************)
MaxMessages == 4       \* longest chat explored
MaxUploads == 3        \* process_uploaded_file calls explored

Event(name) == [op |-> name, raised |-> FALSE]

\* utils.initialize_chat_agent: pd.read_csv, then the agent; an exception
\* leaves what was not yet assigned as it was
InitializeChatAgent(s, how) ==
    IF how = "read_fails" THEN s
    ELSE IF how = "agent_fails" THEN [s EXCEPT !.df = TRUE]
    ELSE [s EXCEPT !.df = TRUE, !.agent = TRUE]

\* process_uploaded_file: the session it leaves and the value it returns.
\* o.entries: parse_logs returned entries; o.traffic_ok: building the frame
\* and the traffic analysis returned (an exception there is caught by the
\* function's except, which returns False); o.agent: how
\* initialize_chat_agent went
ProcessUploadedFile(s, o) ==
    IF ~o.entries
    THEN [returned |-> TRUE, session |-> InitializeChatAgent(s, o.agent)]
    ELSE IF ~o.traffic_ok
    THEN [returned |-> FALSE, session |-> s]
    ELSE [returned |-> TRUE,
          session |-> InitializeChatAgent(
                          [s EXCEPT !.metrics = TRUE, !.ai_analysis_status = "not_started"],
                          o.agent)]

\* the sidebar of main: an uploaded file is processed while file_uploaded is
\* False; o.saved: save_uploaded_file returned a path
Sidebar(s, o) ==
    IF s.uploader /\ ~s.file_uploaded /\ o.saved
    THEN LET r == ProcessUploadedFile(s, o)
         IN  IF r.returned
             THEN [r.session EXCEPT !.file_uploaded = TRUE, !.messages = <<>>]
             ELSE r.session
    ELSE s

SidebarProcesses(s, o) == s.uploader /\ ~s.file_uploaded /\ o.saved

UploadOutcomes ==
    [saved : BOOLEAN, entries : BOOLEAN, traffic_ok : BOOLEAN,
     agent : {"read_fails", "agent_fails", "ok"}]

\* replies of the model to the summary request
SummaryReplies ==
    {[kind |-> "error"],
     [kind |-> "text", pre |-> <<"f">>, keys |-> {"recommendations"}, post |-> <<"f">>]}

DisplayPeriodicSummaryRetrying(s, reply) ==
    IF ~s.file_uploaded \/ ~s.metrics THEN [session |-> s, invoked |-> FALSE]
    ELSE IF s.ai_analysis_status \in {"not_started", "failed"}
    THEN LET result == GenerateAiSummary(TRUE, 1, reply).value
         IN  [session |-> [s EXCEPT !.analysis_results = result,
                                    !.ai_analysis_status =
                                        IF result # None THEN "completed" ELSE "failed"],
              invoked |-> TRUE]
    ELSE [session |-> s, invoked |-> FALSE]

\* display_periodic_summary: the metrics grid raises on metrics None (caught
\* by the function's except); the analysis runs while the status is
\* 'not_started'
DisplayPeriodicSummary(s, reply) ==
    IF ~s.file_uploaded \/ ~s.metrics THEN [session |-> s, invoked |-> FALSE]
    ELSE IF s.ai_analysis_status = "not_started"
    THEN LET result == GenerateAiSummary(TRUE, 1, reply).value
         IN  [session |-> [s EXCEPT !.analysis_results = result,
                                    !.ai_analysis_status =
                                        IF result # None THEN "completed" ELSE "failed"],
              invoked |-> TRUE]
    ELSE [session |-> s, invoked |-> FALSE]

UserMessage == [role |-> "user", content |-> "prompt"]

AssistantMessage(how) ==
    IF how = "raises" THEN [role |-> "assistant", content |-> "Error analyzing query"]
    ELSE IF how = "plot" THEN [role |-> "assistant", content |-> "response", plot |-> TRUE]
    ELSE [role |-> "assistant", content |-> "response"]

ChatPromptSilentOnError(s, how) ==
    IF ~s.agent THEN s
    ELSE IF how = "raises" THEN [s EXCEPT !.messages = Append(@, UserMessage)]
    ELSE [s EXCEPT !.messages = @ \o <<UserMessage, AssistantMessage(how)>>]

\* create_chat_interface on a submitted prompt: with an agent, the user
\* message, then the agent's response or the error text
ChatPrompt(s, how) ==
    IF ~s.agent THEN s
    ELSE [s EXCEPT !.messages = @ \o <<UserMessage, AssistantMessage(how)>>]

\* a run of the script that ends in the sidebar or in the tabs with no
\* button pressed: the uploader gets a file, loses it, or is as it was
RunSidebar(name, file) ==
    \E o \in UploadOutcomes :
        LET s == [session EXCEPT !.uploader = file]
        IN  /\ SidebarProcesses(s, o) => runs.uploads < MaxUploads
            /\ session' = Sidebar(s, o)
            /\ runs' = [runs EXCEPT !.uploads = IF SidebarProcesses(s, o) THEN @ + 1 ELSE @]
            /\ ret' = Event(name)
            /\ arg' = o

ChooseFile == ~session.uploader /\ RunSidebar("choose_file", TRUE)

RemoveFile == session.uploader /\ RunSidebar("remove_file", FALSE)

Rerun == RunSidebar("rerun", session.uploader)

\* the Analyze button of the summary tab (the tabs exist once file_uploaded)
PressAnalyze ==
    /\ session.file_uploaded
    /\ \E reply \in SummaryReplies :
           LET r == DisplayPeriodicSummary(session, reply)
           IN  /\ session' = r.session
               /\ runs' = [runs EXCEPT !.summaries = IF r.invoked THEN @ + 1 ELSE @]
               /\ ret' = Event("analyze")
               /\ arg' = reply

\* the Clear Chat button (shown when df is set)
PressClearChat ==
    /\ session.file_uploaded /\ session.df
    /\ session' = [session EXCEPT !.messages = <<>>]
    /\ ret' = Event("clear_chat")
    /\ arg' = <<>>
    /\ UNCHANGED runs

\* a prompt typed in st.chat_input (shown when df is set)
SubmitPrompt ==
    /\ session.file_uploaded /\ session.df
    /\ Len(session.messages) < MaxMessages
    /\ \E how \in {"response", "plot", "raises"} :
           /\ session' = ChatPrompt(session, how)
           /\ arg' = [agent_run |-> how]
    /\ ret' = Event("prompt")
    /\ UNCHANGED runs

InitApp ==
    /\ csv = <<>>
    /\ current_index = 0
    /\ batch_size = DefaultBatchSize
    /\ current_batch_id = 0
    /\ batch = <<>>
    /\ arg = <<>>
    /\ ret = Event("none")
    /\ calls = 0
    /\ env = <<>>
    /\ trace = <<>>
    /\ session = FreshSession
    /\ runs = NoRuns

NextApp ==
    /\ \/ ChooseFile
       \/ RemoveFile
       \/ Rerun
       \/ PressAnalyze
       \/ PressClearChat
       \/ SubmitPrompt
    /\ UNCHANGED <<csv, current_index, batch_size, current_batch_id, batch, calls,
                   env, trace>>

SpecApp == InitApp /\ [][NextApp]_vars

(***************************************************************************)
(* Properties.                                                             *)
(***************************************************************************)
\* the instant a timestamp cell denotes, in seconds
SecondsOf(v) == IF "epoch" \in DOMAIN v THEN v.epoch ELSE 60 * v.mm + v.ss

\* seconds between the earliest and the latest row of a frame
SpanOf(df) ==
    SetMax({SecondsOf(df[i].timestamp) : i \in 1..Len(df)})
        - SetMin({SecondsOf(df[i].timestamp) : i \in 1..Len(df)})

PosIn(f, row) == CHOOSE i \in 1..Len(f) : f[i] = row

MetricsReturned == ret.op = "calculate_metrics" /\ ~ret.raised

\* C1: over a file of N > 0 unchanging rows every get_next_batch call on a
\* fresh processor returns a non-empty slice of consecutive rows in file
\* order, starting right after the previous slice, or at the first row on the
\* first call and after a slice that reached the end of the file; a slice has
\* batch_size rows, except a slice that ends the file when batch_size does not
\* divide N, which has N mod batch_size rows; for N = 25 and batch_size = 10
\* the sizes are 10, 10, 5, 10.
C1_ConsecutiveSlices ==
    [][calls' = calls + 1 =>
        LET n == Len(csv)
            first == PosIn(csv, batch'[1])
            last == first + Len(batch') - 1
            prevLast == IF calls = 0 THEN n ELSE PosIn(csv, batch[Len(batch)])
        IN  /\ Len(batch') > 0
            /\ batch' = SubSeq(csv, first, last)
            /\ first = (IF prevLast = n THEN 1 ELSE prevLast + 1)
            /\ Len(batch') # batch_size => last = n
            /\ (last = n /\ n % batch_size # 0) => Len(batch') = n % batch_size
            /\ (last # n \/ n % batch_size = 0) => Len(batch') = batch_size
            /\ (n = 25 /\ batch_size = 10 /\ calls' <= 4)
                   => Len(batch') = <<10, 10, 5, 10>>[calls']
    ]_vars

C1_Witness ==
    /\ Len(csv) = 25 /\ batch_size = 10 /\ calls = 4
    /\ Len(batch) = 10 /\ batch[1] = csv[1]

C6_SingleRow ==
    (MetricsReturned /\ Len(arg) = 1) => ret.metrics.requests_per_second = 1

C6_Witness ==
    /\ MetricsReturned /\ Len(arg) = 1 /\ ~IsDatetime(arg[1].timestamp)
    /\ ret.metrics.requests_per_second = 1

\* C7: for a non-empty batch error_rate is 100 * (rows with status in
\* [400, 599]) / (row count) rounded to one decimal; rows with a 1xx or 3xx
\* status are not errors.
C7_ErrorRate4xx5xx ==
    (MetricsReturned /\ Len(arg) > 0) =>
        ret.metrics.error_rate =
            RoundHalfEven(
                1000 * Cardinality({i \in 1..Len(arg) :
                                      arg[i].status >= 400 /\ arg[i].status <= 599}),
                Len(arg))

\* C2: current_batch_id is 0 on a fresh processor and equals the number of
\* get_next_batch calls made, also across wraps of the cursor; no operation
\* decreases or resets it.
C2_BatchIdCountsCalls == current_batch_id = calls

C2_Witness ==
    /\ calls = 3 /\ current_batch_id = 3
    /\ current_index = 0 /\ Len(csv) > 0 /\ Len(batch) > 0

EmptyBatchPassed == ret.op \in {"calculate_metrics", "process_logs"} /\ Len(arg) = 0

\* C8 as stated: calculate_metrics on a batch of zero rows ends in an error,
\* and process_logs drawing an empty batch raises to its caller.
C8_EmptyBatchRaises == EmptyBatchPassed => ret.raised

\* C8 amended: calculate_metrics on a batch of zero rows returns the record
\* requests_per_second = 1, error_rate = 0, unique_ips = 0, and process_logs
\* drawing an empty batch returns that record with an empty pattern list.
C8_EmptyBatchReturns ==
    EmptyBatchPassed =>
        /\ ~ret.raised
        /\ ret.metrics = [requests_per_second |-> 1, error_rate |-> 0, unique_ips |-> 0]
        /\ ret.patterns = <<>>

\* process_logs returned on a batch drawn empty from a file that has rows:
\* the file shrank below the cursor position
C8_Witness ==
    /\ ret.op = "process_logs" /\ ~ret.raised /\ Len(arg) = 0
    /\ Len(csv) > 0 /\ current_batch_id >= 2

\* C9: every record analyze_patterns returns has the prediction label
\* "normal" or "abnormal".
C9_OnlyTwoLabels ==
    ret.op = "analyze_patterns" =>
        \A i \in 1..Len(ret.patterns) :
            "prediction" \in DOMAIN ret.patterns[i]
                => ret.patterns[i].prediction \in {"normal", "abnormal"}

\* C10: no record analyze_patterns returns lacks a required key of the
\* ThreatPrediction schema or has a confidence outside [0, 100].
C10_SchemaHolds ==
    ret.op = "analyze_patterns" =>
        \A i \in 1..Len(ret.patterns) :
            LET p == ret.patterns[i]
            IN  /\ {"prediction", "reasoning", "metrics"} \subseteq DOMAIN p
                /\ {"pattern_type", "description", "confidence", "indicators"}
                       \subseteq DOMAIN p.reasoning
                /\ {"requests_per_second", "time_window_seconds"} \subseteq DOMAIN p.metrics
                /\ p.reasoning.confidence >= 0 /\ p.reasoning.confidence <= 100

(***************************************************************************)
(* Properties of analyze_patterns and process_logs.                        *)
(***************************************************************************)
PatternsRan == ret.op = "analyze_patterns"

Step(k, s) == \E i \in 1..Len(trace) : trace[i].ip = k /\ trace[i].step = s

StepFailed(k, s) ==
    \E i \in 1..Len(trace) : trace[i].ip = k /\ trace[i].step = s /\ ~trace[i].ok

\* the addresses whose record was appended, in the order of the appends
AppendedIps ==
    LET a == SelectSeq(trace, LAMBDA ev : ev.step = "append")
    IN  [i \in 1..Len(a) |-> a[i].ip]

FirstRowOf(df, k) == SetMin({i \in 1..Len(df) : df[i].ip = k})

ValidReply(r) ==
    /\ r.kind = "json_object"
    /\ r.obj \in {Prediction("normal", 10), Prediction("abnormal", 90)}

\* C11: a group whose retrieve_context raises is still sent to the model,
\* and its record is in the result when the model's reply is valid.
C11_SearchFailureStillClassified ==
    PatternsRan =>
        \A k \in DOMAIN env :
            StepFailed(k, "search") =>
                /\ Step(k, "invoke")
                /\ ValidReply(env[k].reply) => Step(k, "append")

\* C12 as stated: the records are in the order in which their addresses first
\* occur in the batch.
C12_FirstSeenOrder ==
    PatternsRan =>
        \A i, j \in 1..Len(AppendedIps) :
            i < j => FirstRowOf(arg, AppendedIps[i]) < FirstRowOf(arg, AppendedIps[j])

\* C12 amended: the records are in ascending order of their addresses (the
\* key order of groupby), one per appended group, each stamped from its group.
C12_SortedKeyOrder ==
    PatternsRan =>
        /\ Len(ret.patterns) = Len(AppendedIps)
        /\ \A i, j \in 1..Len(AppendedIps) : i < j => AppendedIps[i] < AppendedIps[j]
        /\ \A i \in 1..Len(AppendedIps) :
               ret.patterns[i].timestamp = arg[FirstRowOf(arg, AppendedIps[i])].timestamp

C12_Witness ==
    /\ PatternsRan /\ Len(arg) = 2 /\ arg[1].ip = 2 /\ arg[2].ip = 1
    /\ arg[1].timestamp # arg[2].timestamp
    /\ AppendedIps = <<1, 2>> /\ Len(ret.patterns) = 2
    /\ ret.patterns[1].timestamp = arg[2].timestamp

\* C13: analyze_patterns never raises; a group whose model call fails is
\* omitted; every group of the batch is still run; the result holds at most
\* one record per address and exactly one for each address whose
\* classification went through.
C13_PartialResults ==
    PatternsRan =>
        /\ ~ret.raised
        /\ Len(ret.patterns) = Len(AppendedIps)
        /\ \A k \in {arg[i].ip : i \in 1..Len(arg)} :
               /\ Step(k, "summary")
               /\ Cardinality({i \in 1..Len(AppendedIps) : AppendedIps[i] = k}) <= 1
               /\ StepFailed(k, "invoke") => ~Step(k, "append")
               /\ (SummaryBuilds(arg) /\ env[k].search_ok /\ ValidReply(env[k].reply))
                      => Step(k, "append")

C13_Witness ==
    /\ PatternsRan /\ ~ret.raised
    /\ StepFailed(1, "invoke") /\ Step(2, "append")
    /\ Len(ret.patterns) = 1

\* C14: a group whose reply holds no JSON is omitted from the result, and no
\* exception escapes analyze_patterns.
C14_NoJsonOmitted ==
    PatternsRan =>
        \A k \in DOMAIN env :
            (env[k].reply.kind = "no_json" /\ Step(k, "invoke")) =>
                /\ ~ret.raised
                /\ StepFailed(k, "parse")
                /\ ~Step(k, "append")
                /\ \A i \in 1..Len(AppendedIps) : AppendedIps[i] # k

C14_Witness ==
    /\ PatternsRan /\ ~ret.raised /\ 1 \in DOMAIN env
    /\ env[1].reply.kind = "no_json" /\ StepFailed(1, "parse")
    /\ Step(2, "append") /\ Len(ret.patterns) = 1

\* C15: when one row of the drawn batch has a timestamp that cannot be
\* parsed, process_logs still returns.
C15_BadRowTolerated ==
    (/\ ret.op = "process_logs"
     /\ Len(arg) >= 2
     /\ Cardinality({i \in 1..Len(arg) : ~Parsable(arg[i].timestamp)}) = 1)
        => ~ret.raised

\* a step of calculate_metrics (the file is as it was, the call is recorded)
MetricsStep == ret'.op = "calculate_metrics" /\ csv' = csv /\ arg' = batch

\* C16 as stated: calculate_metrics leaves the batch passed (values and type
\* of the timestamp column included), current_index and current_batch_id as
\* they were, and a second call on the same batch returns the same metrics.
C16_NoSideEffects ==
    [][MetricsStep =>
          /\ batch' = batch
          /\ current_index' = current_index
          /\ current_batch_id' = current_batch_id
          /\ (ret.op = "calculate_metrics" /\ ~ret.raised) => ret'.metrics = ret.metrics
    ]_vars

\* C16 amended: calculate_metrics leaves current_index and current_batch_id
\* as they were and a second call on the same batch returns the same metrics,
\* but when it returns, the timestamp column of the batch passed holds
\* datetimes (the same instants) in place of the text; the rows, their order
\* and their other columns are as they were.  When it raises the batch is as
\* it was.
C16_OnlyTimestampColumnConverted ==
    [][MetricsStep =>
          /\ current_index' = current_index
          /\ current_batch_id' = current_batch_id
          /\ (ret.op = "calculate_metrics" /\ ~ret.raised) => ret'.metrics = ret.metrics
          /\ ret'.raised => batch' = batch
          /\ ~ret'.raised =>
                /\ Len(batch') = Len(batch)
                /\ \A i \in 1..Len(batch) :
                       /\ batch'[i].ip = batch[i].ip
                       /\ batch'[i].status = batch[i].status
                       /\ IsDatetime(batch'[i].timestamp)
                       /\ SecondsOf(batch'[i].timestamp) = SecondsOf(batch[i].timestamp)
    ]_vars

\* calculate_metrics has returned on a batch an earlier call had converted
C16_Witness ==
    /\ ret.op = "calculate_metrics" /\ ~ret.raised
    /\ Len(arg) = 2 /\ IsDatetime(arg[1].timestamp) /\ batch = arg
    /\ current_batch_id > 0

\* C19: a raising mem0.add is caught inside analyze_patterns: the call does
\* not raise, the record appended for the group stays in the result, and the
\* other groups are run.
C19_SaveFailureCaught ==
    PatternsRan =>
        \A k \in DOMAIN env :
            StepFailed(k, "save") =>
                /\ ~ret.raised
                /\ Cardinality({i \in 1..Len(AppendedIps) : AppendedIps[i] = k}) = 1
                /\ Len(ret.patterns) = Len(AppendedIps)
                /\ \A k2 \in DOMAIN env : Step(k2, "summary")

C19_Witness ==
    /\ PatternsRan /\ ~ret.raised
    /\ StepFailed(1, "save") /\ Step(2, "append")
    /\ Len(ret.patterns) = 2

\* the order the claim gives to the steps of one group
ClaimOrder == <<"summary", "search", "invoke", "parse", "stamp", "append", "save_args", "save">>

RankOf(s) == CHOOSE n \in 1..Len(ClaimOrder) : ClaimOrder[n] = s

\* C20: the steps of a group run in the order context fetch, model call,
\* parse, append, memory save; nothing runs for a group after a step of it
\* failed, so the model is called at most once per group; a group ends either
\* with its record appended or skipped before the append, never both; a
\* memory save is attempted only after the group's append.
C20_StepOrder ==
    PatternsRan =>
        /\ \A i, j \in 1..Len(trace) :
               (i < j /\ trace[i].ip = trace[j].ip) =>
                   /\ RankOf(trace[i].step) < RankOf(trace[j].step)
                   /\ trace[i].ok
        /\ \A k \in DOMAIN env :
               /\ Cardinality({i \in 1..Len(trace) :
                                  trace[i].ip = k /\ trace[i].step = "invoke"}) <= 1
               /\ Step(k, "append") #
                      (\E i \in 1..Len(trace) :
                           /\ trace[i].ip = k /\ ~trace[i].ok
                           /\ RankOf(trace[i].step) < RankOf("append"))
               /\ Step(k, "save") => Step(k, "append")
        /\ Len(ret.patterns) = Len(AppendedIps)

C20_Witness ==
    /\ PatternsRan /\ Len(trace) = 11
    /\ Step(1, "save") /\ StepFailed(2, "invoke") /\ Len(ret.patterns) = 1

(***************************************************************************)
(* Properties of _extract_json_from_text.                                  *)
(***************************************************************************)
Extracted == ret.op = "_extract_json_from_text"

BraceFree(s) == \A i \in 1..Len(s) : s[i] \notin {"{", "}"}

DepthAt(s, n) ==
    Cardinality({i \in 1..n : s[i] = "{"}) - Cardinality({i \in 1..n : s[i] = "}"})

\* s is the text of exactly one JSON object
OneObject(s) ==
    /\ Len(s) >= 2 /\ s[1] = "{" /\ s[Len(s)] = "}"
    /\ DepthAt(s, Len(s)) = 0
    /\ \A n \in 1..(Len(s) - 1) : DepthAt(s, n) > 0
    /\ \A n \in 1..Len(s) :
           /\ s[n] \notin {"p", "f"}
           /\ (s[n] = "{" /\ n > 1) => s[n - 1] = "n"
           /\ s[n] = "n" => s[n + 1] = "{"

FirstOpen(s) == SetMin({i \in 1..Len(s) : s[i] = "{"})

LastClose(s) == SetMax({i \in 1..Len(s) : s[i] = "}"})

\* some "{" of the text has a "}" after it
BraceDelimited(s) == \E i, j \in 1..Len(s) : i < j /\ s[i] = "{" /\ s[j] = "}"

\* C17: prose (or fences) around one JSON object gives the decoded object;
\* a text without brace-delimited content, or whose brace-delimited content
\* does not decode, gives None; the function never raises.
C17_ExtractsOneObject ==
    Extracted =>
        /\ ~ret.raised
        /\ \A i, j \in 1..Len(arg) :
               LET pre == SubSeq(arg, 1, i - 1)
                   obj == SubSeq(arg, i, j)
                   post == SubSeq(arg, j + 1, Len(arg))
               IN  (i < j /\ BraceFree(pre) /\ OneObject(obj) /\ BraceFree(post)) =>
                       /\ ret.value # None
                       /\ ret.value = JsonLoads(obj).value
                       /\ Len(ret.value.members) =
                              Cardinality({n \in 2..(Len(obj) - 1) :
                                              obj[n] \in {"m", "n"} /\ DepthAt(obj, n) = 1})
        /\ ~BraceDelimited(arg) => ret.value = None
        /\ (BraceDelimited(arg)
                /\ ~OneObject(SubSeq(arg, FirstOpen(arg), LastClose(arg))))
               => ret.value = None

C17_Witness ==
    /\ Extracted
    /\ arg = <<"p", "f", "{", "m", "}", "f">>
    /\ ret.value = [members |-> <<Scalar>>]

\* C18: a valid JSON object followed by further text that contains a brace
\* is returned decoded.
C18_FirstObjectFound ==
    Extracted =>
        \A j \in 1..Len(arg) :
            LET first == SubSeq(arg, FirstOpen(arg), j)
                after == SubSeq(arg, j + 1, Len(arg))
            IN  (BraceDelimited(arg) /\ OneObject(first) /\ ~BraceFree(after)) =>
                    (ret.value # None /\ ret.value = JsonLoads(first).value)

(***************************************************************************)
(* Further properties of the processor.                                    *)
(***************************************************************************)
\* C21: every record returned by analyze_patterns carries the earliest
\* timestamp among the rows of its group.
C21_EarliestTimestamp ==
    PatternsRan =>
        \A i \in 1..Len(ret.patterns) :
            LET group == SelectSeq(arg, LAMBDA r : r.ip = AppendedIps[i])
            IN  SecondsOf(ret.patterns[i].timestamp) =
                    SetMin({SecondsOf(group[n].timestamp) : n \in 1..Len(group)})

\* C22: after every get_next_batch call on a file of N > 0 unchanging rows,
\* current_index is a multiple of batch_size with 0 <= current_index < N: the
\* previous index plus batch_size, or 0 when that sum reaches or exceeds N.
C22_IndexMultipleOfBatchSize ==
    [][calls' = calls + 1 =>
          /\ current_index' % batch_size = 0
          /\ 0 <= current_index' /\ current_index' < Len(csv)
          /\ current_index' = (IF current_index + batch_size >= Len(csv)
                               THEN 0
                               ELSE current_index + batch_size)
    ]_vars

C22_Witness ==
    /\ Len(csv) = 25 /\ batch_size = 10 /\ calls = 2 /\ current_index = 20
    /\ ret.op = "get_next_batch"

\* C23: get_next_batch takes the rows it returns and the decision to wrap
\* from the file as it is at that call: the rows from the cursor on, up to
\* batch_size of them, are returned whatever was appended since the last
\* call, and the cursor wraps only on a call whose batch reached the end of
\* the file as it is then.
C23_ReadsFileAnew ==
    [][(ret'.op = "get_next_batch" /\ calls' = calls + 1) =>
          LET n == Len(csv)
              left == IF n > current_index THEN n - current_index ELSE 0
          IN  /\ Len(batch') = (IF left < batch_size THEN left ELSE batch_size)
              /\ \A k \in 1..Len(batch') : batch'[k] = csv[current_index + k]
              /\ (current_index' = 0) <=> (current_index + batch_size >= n)
              /\ (current_index' = 0 /\ current_index < n) =>
                     /\ batch'[Len(batch')] = csv[n]
                     /\ current_index + Len(batch') = n
    ]_vars

\* with batch_size 1 the third call returns the second row and wraps only
\* when the first call wrapped on a file of at most one row and the second
\* found two: a row was appended between them
C23_Witness ==
    /\ ret.op = "get_next_batch" /\ calls = 3 /\ batch_size = 1
    /\ current_index = 0 /\ Len(csv) = 2 /\ csv[1] # csv[2]
    /\ batch = <<csv[2]>>

\* C26: process_logs draws the batch, then converts it in calculate_metrics,
\* then classifies it, so the summary of every group of a returned
\* process_logs was built on converted timestamps; analyze_patterns on a
\* batch whose timestamps are still text fails in the summary of every
\* group, invokes no model and returns an empty list.
C26_ConversionBeforeSummary ==
    /\ (ret.op = "process_logs" /\ ~ret.raised) =>
           /\ current_batch_id > 0
           /\ Len(batch) = Len(arg)
           /\ \A i \in 1..Len(batch) :
                  /\ IsDatetime(batch[i].timestamp)
                  /\ SecondsOf(batch[i].timestamp) = SecondsOf(arg[i].timestamp)
           /\ \A i \in 1..Len(arg) :
                  Step(arg[i].ip, "summary") /\ ~StepFailed(arg[i].ip, "summary")
    /\ (ret.op = "analyze_patterns"
            /\ \A i \in 1..Len(arg) : ~IsDatetime(arg[i].timestamp)) =>
           /\ ~ret.raised
           /\ ret.patterns = <<>>
           /\ \A i \in 1..Len(arg) : StepFailed(arg[i].ip, "summary")
           /\ \A n \in 1..Len(trace) : trace[n].step = "summary"

C26_Witness ==
    /\ ret.op = "analyze_patterns" /\ Len(arg) = 2 /\ arg[1].ip # arg[2].ip
    /\ \A i \in 1..2 : "mm" \in DOMAIN arg[i].timestamp
    /\ Len(trace) = 2 /\ ret.patterns = <<>>

\* a step of process_logs (no other step leaves the file alone and ends with
\* the outcome of process_logs)
ProcessStep == ret'.op = "process_logs" /\ csv' = csv /\ arg' = DrawnBatch

\* C27 as stated: the advance made by process_logs is kept when it raises, the
\* batch identifier counts the failed batch, and the next call does not draw
\* the failed batch again.
C27_FailedBatchNotRedrawn ==
    [][(ProcessStep /\ ret'.raised) =>
          /\ current_batch_id' = current_batch_id + 1
          /\ current_index' # current_index
    ]_vars

\* C27 amended: process_logs moves the cursor and counts the batch whether or
\* not it raises; after a raise the next call starts at the next slice, which
\* is another slice when the file holds more rows than batch_size and the
\* failed batch itself when the whole file fits in one batch.
C27_AdvanceKeptOnRaise ==
    [][ProcessStep =>
          /\ current_batch_id' = current_batch_id + 1
          /\ calls' = calls + 1
          /\ current_index' = (IF current_index + batch_size >= Len(csv)
                               THEN 0
                               ELSE current_index + batch_size)
          /\ (ret'.raised /\ Len(csv) > batch_size) => current_index' # current_index
          /\ (ret'.raised /\ current_index = 0 /\ Len(csv) <= batch_size)
                 => current_index' = current_index
    ]_vars

C27_Witness ==
    /\ ret.op = "process_logs" /\ ret.raised
    /\ current_index = 1 /\ current_batch_id = 1 /\ batch_size = 1
    /\ ~Parsable(arg[1].timestamp)

(***************************************************************************)
(* Properties of parse_logs.                                               *)
(***************************************************************************)
Parsed == ret.op = "parse_logs"

RowsRead == IF arg.max_lines < Len(csv) THEN arg.max_lines ELSE Len(csv)

EntryOf(id) == \E n \in 1..Len(ret.entries) : ret.entries[n].id = id

IsIntText(cell) == "int" \in DOMAIN cell

IsDateText(cell) == "mm" \in DOMAIN cell

Summarised == ret.op = "generate_ai_summary"

\* C25: generate_ai_summary never raises; it returns None when the client is
\* not initialized, when the model call fails or its reply is empty, and
\* when no JSON can be extracted from the reply; a result other than None
\* has the six keys of ANALYSIS_TEMPLATE, those the model left out with the
\* value "No analysis available"; at most 500 log lines are sent.
C25_SummaryTotal ==
    Summarised =>
        /\ ~ret.raised
        /\ ~arg.client => (ret.value = None /\ ~ret.called)
        /\ arg.reply.kind \in {"error", "empty"} => ret.value = None
        /\ (arg.reply.kind = "text"
                /\ ExtractJsonFromText(ReplyText(arg.reply)).value = None)
               => ret.value = None
        /\ ret.value # None =>
               /\ Cardinality(TemplateKeys) = 6
               /\ TemplateKeys \subseteq DOMAIN ret.value
               /\ \A k \in TemplateKeys \ arg.reply.keys :
                      ret.value[k] = "No analysis available"
               /\ \A k \in arg.reply.keys :
                      k \in DOMAIN ret.value /\ ret.value[k] = "from_model"
        /\ ret.sent <= 500
        /\ ret.called =>
               ret.sent = (IF arg.logs < 500 THEN arg.logs ELSE 500)

C25_Witness ==
    /\ Summarised /\ arg.client /\ arg.logs = 501 /\ ret.sent = 500
    /\ arg.reply.kind = "text" /\ arg.reply.pre = <<"f">>
    /\ arg.reply.keys = {"recommendations", "severity"}
    /\ ret.value # None
    /\ ret.value["user_agent_analysis"] = "No analysis available"
    /\ ret.value["recommendations"] = "from_model"

(***************************************************************************)
(* Properties of classify_logs_with_openai.                                *)
(***************************************************************************)
Classified == ret.op = "classify_logs_with_openai"

\* the prompts up to and including the first whose model call raises
Processed ==
    LET bad == {i \in 1..Len(arg) : arg[i].kind = "raise"}
    IN  IF bad = {} THEN Len(arg) ELSE SetMin(bad)

\* C28: the label of a prompt is 'abnormal' whenever the reply holds the
\* word 'abnormal', 'normal' only when it holds 'normal' without 'abnormal';
\* prompts are taken in order up to the first model call that raises, and
\* the list returned has one label per prompt taken, 'error' being the last
\* one only.
C28_Labels ==
    Classified =>
        /\ Len(ret.labels) = Processed
        /\ \A i \in 1..Len(ret.labels) :
               /\ ret.labels[i] = "error" <=> arg[i].kind = "raise"
               /\ ret.labels[i] = "error" => i = Len(ret.labels)
               /\ arg[i].kind = "text" =>
                      /\ arg[i].abnormal => ret.labels[i] = "abnormal"
                      /\ ret.labels[i] = "normal" => (arg[i].normal /\ ~arg[i].abnormal)

(***************************************************************************)
(* Properties of the dashboard.                                            *)
(***************************************************************************)
Alternating(msgs) ==
    /\ Len(msgs) % 2 = 0
    /\ \A i \in 1..Len(msgs) :
           msgs[i].role = (IF i % 2 = 1 THEN "user" ELSE "assistant")

\* C29: a prompt submitted with an agent appends the user message and then
\* one assistant message, the response or the error text; a prompt
\* submitted without an agent appends nothing; the message list always
\* alternates user, assistant and has even length.
C29_ChatAlternates ==
    [][/\ Alternating(session'.messages)
       /\ ret'.op = "prompt" =>
              LET old == session.messages
                  new == session'.messages
              IN  IF session.agent
                  THEN /\ Len(new) = Len(old) + 2
                       /\ SubSeq(new, 1, Len(old)) = old
                       /\ new[Len(old) + 1].role = "user"
                       /\ new[Len(old) + 2].role = "assistant"
                       /\ new[Len(old) + 2].content =
                              (IF arg'.agent_run = "raises"
                               THEN "Error analyzing query"
                               ELSE "response")
                  ELSE new = old
    ]_vars

C29_Witness ==
    /\ ret.op = "prompt" /\ Len(session.messages) = 4
    /\ session.messages[2].content = "response"
    /\ session.messages[4].content = "Error analyzing query"

\* C30 as stated, the part that fails: main runs process_uploaded_file at
\* most once per session.
C30_ProcessedOnce == runs.uploads <= 1

\* C30 amended: the status only moves from not_started to completed or to
\* failed, each time by one call of generate_ai_summary, which is made only
\* while the status is not_started; nothing moves it back to not_started;
\* process_uploaded_file runs only while file_uploaded is False, which is
\* never reset, so it returns True at most once, but it runs again on every
\* run of the script as long as it fails.
C30_StatusOneWay ==
    [][/\ session'.ai_analysis_status # session.ai_analysis_status =>
              /\ session.ai_analysis_status = "not_started"
              /\ session'.ai_analysis_status \in {"completed", "failed"}
              /\ runs'.summaries = runs.summaries + 1
       /\ runs'.summaries # runs.summaries =>
              /\ session.ai_analysis_status = "not_started"
              /\ runs'.summaries = runs.summaries + 1
              /\ session'.ai_analysis_status # "not_started"
       /\ session.file_uploaded => (session'.file_uploaded /\ runs'.uploads = runs.uploads)
       /\ runs'.uploads # runs.uploads => ~session.file_uploaded
    ]_vars

C30_Witness ==
    /\ runs.uploads = 2 /\ session.file_uploaded
    /\ session.ai_analysis_status = "failed" /\ runs.summaries = 1
    /\ ret.op = "analyze" /\ arg.kind = "text"

====
